---- MODULE Spec2Model ----
(***************************************************************************)
(* The e-commerce dashboard script (src/ecommerce_dashboard.py) as a state *)
(* machine: one run of the script over a filtered transaction table.       *)
(*                                                                         *)
(*   filtered --KPI--> kpi --Aggregate--> aggregated --Rank--> ranked      *)
(*            --Qcut--> scored | error --Composite--> composed             *)
(*            --Segment--> segmented                                       *)
(*                                                                         *)
(* Numbers: amounts are integers (currency units), timestamps are integer  *)
(* ticks with TicksPerDay ticks in one day, ranks are the integers 1..N    *)
(* (pandas stores them as floats with integral values), quantile edges are *)
(* kept multiplied by NBins so that the linear interpolation stays exact,  *)
(* and the average order value is an exact fraction <<num, den>>.          *)
(***************************************************************************)
EXTENDS Integers, Sequences, FiniteSets, TLC

VARIABLES
    df_filtered,  \* the filtered transaction table, a sequence of rows
    kpi,          \* the four KPI metrics, once computed
    rfm,          \* the rfm DataFrame: a record of equally long columns
    pc,           \* position of the script
    err,          \* the exception that stopped the script, or "none"
    row,          \* the row handed to rfm_segment (pure-function harness)
    ret           \* what rfm_segment returned for it

vars == <<df_filtered, kpi, rfm, pc, err, row, ret>>

---------------------------------------------------------------------------
(* Bounds of the model *)

MaxRows == 3        \* rows of the filtered transaction table
TicksPerDay == 2    \* resolution of a timestamp: ticks in one day
MaxN == 6           \* customers of a generated population
MaxVal == 3         \* raw values of the varying dimension are 1..MaxVal

Invoices == {1, 2}
Customers == {1, 2}
Dates == {0, 1, 3}
Amounts == {-1, 2}

Rows == [Invoice_Number : Invoices, Customer_ID : Customers,
         Invoice_Date : Dates, Amount : Amounts]

---------------------------------------------------------------------------
(* Series helpers *)

RECURSIVE SeqSum(_)
SeqSum(s) == IF s = <<>> THEN 0 ELSE Head(s) + SeqSum(Tail(s))

SetMax(S) == CHOOSE m \in S : \A x \in S : x <= m
SetMin(S) == CHOOSE m \in S : \A x \in S : m <= x

Column(df, name) == [i \in 1..Len(df) |-> df[i][name]]

Values(s) == {s[i] : i \in DOMAIN s}

\* all series of length n over S
ColumnsOfLen(S, n) == [1..n -> S]

\* Series.nunique()
Nunique(s) == Cardinality(Values(s))

\* Series.max(); NaT on the empty series
NaT == "NaT"
SeriesMax(s) == IF s = <<>> THEN NaT ELSE SetMax(Values(s))

RECURSIVE Gcd(_, _)
Gcd(a, b) == IF b = 0 THEN a ELSE Gcd(b, a % b)

Abs(x) == IF x < 0 THEN -x ELSE x

\* a / b for b > 0 as a fraction in lowest terms
Ratio(a, b) == LET g == Gcd(Abs(a), b) IN <<a \div g, b \div g>>

\* numpy true division: a zero divisor gives nan or inf (written here as a
\* fraction with denominator 0), it does not raise
TrueDivide(a, b) == IF b = 0 THEN <<a, 0>> ELSE Ratio(a, b)

---------------------------------------------------------------------------
(* KPI metrics, lines 104-107 *)

\* total_sales / total_orders without the test for zero orders
AvgOrderValueNoGuard(total_sales, total_orders) ==
    TrueDivide(total_sales, total_orders)

AvgOrderValue(total_sales, total_orders) ==
    IF total_orders > 0 THEN TrueDivide(total_sales, total_orders) ELSE <<0, 1>>

KpiMetrics(df) ==
    LET total_sales == SeqSum(Column(df, "Amount"))
        total_orders == Nunique(Column(df, "Invoice_Number"))
        total_customers == Nunique(Column(df, "Customer_ID"))
    IN [total_sales |-> total_sales,
        total_orders |-> total_orders,
        total_customers |-> total_customers,
        avg_order_value |-> AvgOrderValue(total_sales, total_orders)]

KPI ==
    /\ pc = "filtered"
    /\ kpi' = KpiMetrics(df_filtered)
    /\ pc' = "kpi"
    /\ UNCHANGED <<df_filtered, rfm, err, row, ret>>

---------------------------------------------------------------------------
(* Aggregation, lines 218-229 *)

\* snapshot_date = df_filtered['Invoice_Date'].max() + pd.Timedelta(days=1)
SnapshotDate(df) ==
    IF df = <<>> THEN NaT
    ELSE SeriesMax(Column(df, "Invoice_Date")) + TicksPerDay

\* Timedelta.days: whole days, floored
Days(td) == td \div TicksPerDay

\* the group keys in the order groupby (sort=True) emits them
RECURSIVE SortedKeys(_)
SortedKeys(S) ==
    IF S = {} THEN <<>>
    ELSE LET m == SetMin(S) IN <<m>> \o SortedKeys(S \ {m})

GroupRows(df, c) == SelectSeq(df, LAMBDA r : r.Customer_ID = c)

\* lambda x: (snapshot_date - x.max()).days
RecencyOf(snapshot_date, x) == Days(snapshot_date - SeriesMax(x))

\* 'Invoice_Number': 'count'
FrequencyOfRowCount(x) == Len(x)

\* 'Invoice_Number': 'nunique'
FrequencyOf(x) == Nunique(x)

\* 'Amount': 'sum'
MonetaryOf(x) == SeqSum(x)

Aggregate(df) ==
    LET snapshot_date == SnapshotDate(df)
        keys == SortedKeys(Values(Column(df, "Customer_ID")))
        n == Len(keys)
        g(i) == GroupRows(df, keys[i])
    IN [Customer_ID |-> keys,
        Recency |-> [i \in 1..n |->
                        RecencyOf(snapshot_date, Column(g(i), "Invoice_Date"))],
        Frequency |-> [i \in 1..n |->
                        FrequencyOf(Column(g(i), "Invoice_Number"))],
        Monetary |-> [i \in 1..n |-> MonetaryOf(Column(g(i), "Amount"))]]

AggregateStep ==
    /\ pc = "kpi"
    /\ rfm' = Aggregate(df_filtered)
    /\ pc' = "aggregated"
    /\ UNCHANGED <<df_filtered, kpi, err, row, ret>>

---------------------------------------------------------------------------
(* Ranking, lines 232-234 *)

\* Series.rank(method='min'): equal values share the lowest rank
RankMin(s) ==
    [i \in 1..Len(s) |-> 1 + Cardinality({j \in 1..Len(s) : s[j] < s[i]})]

\* Series.rank(method='first', ascending=False)
RankFirstDescending(s) ==
    [i \in 1..Len(s) |->
        1 + Cardinality({j \in 1..Len(s) : s[j] > s[i]})
          + Cardinality({j \in 1..(i - 1) : s[j] = s[i]})]

\* Series.rank(method='first', ascending=True): equal values are ranked in
\* the order they appear in the series
RankFirst(s) ==
    [i \in 1..Len(s) |->
        1 + Cardinality({j \in 1..Len(s) : s[j] < s[i]})
          + Cardinality({j \in 1..(i - 1) : s[j] = s[i]})]

Rank ==
    /\ pc = "aggregated"
    /\ rfm' = ("R_rank" :> RankFirst(rfm.Recency))
              @@ ("F_rank" :> RankFirst(rfm.Frequency))
              @@ ("M_rank" :> RankFirst(rfm.Monetary))
              @@ rfm
    /\ pc' = "ranked"
    /\ UNCHANGED <<df_filtered, kpi, err, row, ret>>

---------------------------------------------------------------------------
(* Quantile scoring, lines 237-239 *)

NBins == 5

NaN == "NaN"

RLabels == <<5, 4, 3, 2, 1>>
FLabels == <<1, 2, 3, 4, 5>>
MLabelsDescending == <<5, 4, 3, 2, 1>>
MLabels == <<1, 2, 3, 4, 5>>

Sorted(x) == SortSeq(x, LAMBDA a, b : a < b)

\* Series.quantile(k / NBins), linear interpolation between the two order
\* statistics around position (n - 1) * k / NBins; the result is kept
\* multiplied by NBins. NaN on the empty series. (pandas computes the edge
\* in double precision; on the ranks 1..N an edge that is a whole number
\* comes out as that number or just above it, so comparing it with a rank
\* gives what the exact value gives.)
QuantileEdge(x, k) ==
    LET n == Len(x)
        h == (n - 1) * k
        lo == h \div NBins
        fr == h % NBins
        sx == Sorted(x)
        a == sx[lo + 1]
        b == sx[IF lo + 2 <= n THEN lo + 2 ELSE n]
    IN IF n = 0 THEN NaN ELSE NBins * a + (b - a) * fr

\* the NBins + 1 bin edges qcut computes: the quantiles 0, 1/NBins, ..., 1
QuantileBins(x) == [k \in 1..(NBins + 1) |-> QuantileEdge(x, k - 1)]

\* _bins_to_cuts: "Bin edges must be unique" unless duplicates='drop'
DuplicateEdges(bins) == Cardinality(Values(bins)) < Len(bins) /\ Len(bins) # 2

\* bins.searchsorted(x, side='left'), then include_lowest
BinId(bins, v) ==
    IF NBins * v = bins[1] THEN 1
    ELSE Cardinality({k \in DOMAIN bins : bins[k] < NBins * v})

\* pd.qcut(x, NBins, labels=labels): the label of every element's bin, or
\* the ValueError
Qcut(x, labels) ==
    LET bins == QuantileBins(x)
    IN IF DuplicateEdges(bins) \/ Len(labels) # Len(bins) - 1
       THEN [error |-> "ValueError", values |-> <<>>]
       ELSE [error |-> "none",
             values |-> [i \in 1..Len(x) |->
                           LET id == BinId(bins, x[i])
                           IN IF id = 0 \/ id = Len(bins) THEN NaN
                              ELSE labels[id]]]

QcutStep ==
    /\ pc = "ranked"
    /\ LET r == Qcut(rfm.R_rank, RLabels)
           f == Qcut(rfm.F_rank, FLabels)
           m == Qcut(rfm.M_rank, MLabels)
           withR == ("R_Score" :> r.values) @@ rfm
           withF == ("F_Score" :> f.values) @@ withR
           withM == ("M_Score" :> m.values) @@ withF
       IN IF r.error # "none"
          THEN /\ rfm' = rfm
               /\ err' = r.error
               /\ pc' = "error"
          ELSE IF f.error # "none"
          THEN /\ rfm' = withR
               /\ err' = f.error
               /\ pc' = "error"
          ELSE IF m.error # "none"
          THEN /\ rfm' = withF
               /\ err' = m.error
               /\ pc' = "error"
          ELSE /\ rfm' = withM
               /\ err' = "none"
               /\ pc' = "scored"
    /\ UNCHANGED <<df_filtered, kpi, row, ret>>

---------------------------------------------------------------------------
(* Composite score, lines 241-245 *)

\* astype(str) of a score
Str == <<"1", "2", "3", "4", "5">>

Composite ==
    /\ pc = "scored"
    /\ rfm' = ("RFM_Score" :>
                  [i \in 1..Len(rfm.Customer_ID) |->
                      Str[rfm.R_Score[i]] \o Str[rfm.F_Score[i]]
                          \o Str[rfm.M_Score[i]]])
              @@ rfm
    /\ pc' = "composed"
    /\ UNCHANGED <<df_filtered, kpi, err, row, ret>>

---------------------------------------------------------------------------
(* Segmentation, lines 248-258 *)

\* rfm_segment without the test of M_Score
rfm_segment_ignoring_monetary(r) ==
    IF r.R_Score >= 4 /\ r.F_Score >= 4 THEN "Best Customers"
    ELSE IF r.R_Score >= 4 /\ r.F_Score <= 2 THEN "New Customers"
    ELSE IF r.R_Score <= 2 /\ r.F_Score >= 4 THEN "Loyal Customers"
    ELSE "Others"

rfm_segment(r) ==
    IF r.R_Score >= 4 /\ r.F_Score >= 4 /\ r.M_Score >= 4 THEN "Best Customers"
    ELSE IF r.R_Score >= 4 /\ r.F_Score <= 2 THEN "New Customers"
    ELSE IF r.R_Score <= 2 /\ r.F_Score >= 4 THEN "Loyal Customers"
    ELSE "Others"

RowOf(df, i) ==
    [R_Score |-> df.R_Score[i], F_Score |-> df.F_Score[i],
     M_Score |-> df.M_Score[i]]

\* rfm['Segment'] = rfm.apply(rfm_segment, axis=1)
Segment ==
    /\ pc = "composed"
    /\ rfm' = ("Segment" :>
                  [i \in 1..Len(rfm.Customer_ID) |-> rfm_segment(RowOf(rfm, i))])
              @@ rfm
    /\ pc' = "segmented"
    /\ UNCHANGED <<df_filtered, kpi, err, row, ret>>

\* one call of rfm_segment on a row of scores
CallSegment ==
    /\ pc = "call"
    /\ ret' = rfm_segment(row)
    /\ pc' = "returned"
    /\ UNCHANGED <<df_filtered, kpi, rfm, err, row>>

---------------------------------------------------------------------------
(* The script run over a filtered transaction table *)

NoTable == [Customer_ID |-> <<>>]
NoKpi == [total_sales |-> 0]
NoRow == [R_Score |-> 1, F_Score |-> 1, M_Score |-> 1]

Init ==
    /\ \E n \in 0..MaxRows : df_filtered \in ColumnsOfLen(Rows, n)
    /\ kpi = NoKpi
    /\ rfm = NoTable
    /\ pc = "filtered"
    /\ err = "none"
    /\ row = NoRow
    /\ ret = "none"

Next == KPI \/ AggregateStep \/ Rank \/ QcutStep \/ Composite \/ Segment

Spec == Init /\ [][Next]_vars

---------------------------------------------------------------------------
(* The script run over the transactions of a given customer population.    *)
(* The three dimensions are ranked and cut independently of one another,   *)
(* so the populations explored let one dimension vary over all value       *)
(* sequences and hold the other two at 1 (one order, amounts summing to 1, *)
(* placed on the last day). Customer i is given f[i] orders of one line    *)
(* each, r[i] - 1 days before the last day, with amounts that sum to m[i]. *)
(* The customer with the latest order has recency 1, so the recency        *)
(* sequence r must hold a 1.                                               *)

Ones(n) == [i \in 1..n |-> 1]

RECURSIVE Concat(_)
Concat(ss) == IF ss = <<>> THEN <<>> ELSE Head(ss) \o Concat(Tail(ss))

OrdersOf(i, date, f, m) ==
    [k \in 1..f |->
        [Invoice_Number |-> i * (MaxVal + 1) + k,
         Customer_ID |-> i,
         Invoice_Date |-> date,
         Amount |-> IF k = 1 THEN m - (f - 1) ELSE 1]]

TransactionsOf(r, f, m) ==
    LET last == SetMax(Values(r)) - 1
    IN Concat([i \in 1..Len(r) |->
                  OrdersOf(i, (last + 1 - r[i]) * TicksPerDay, f[i], m[i])])

RawValues == 1..MaxVal

\* the populations of n customers in which dimension c is the one that varies
RecencyInputs(n, c) ==
    IF n = 0 \/ 1 \in Values(c) THEN {TransactionsOf(c, Ones(n), Ones(n))} ELSE {}
FrequencyInputs(n, c) == {TransactionsOf(Ones(n), c, Ones(n))}
MonetaryInputs(n, c) ==
    {TransactionsOf(Ones(n), Ones(n), [i \in 1..n |-> c[i] - 2])}

InitScore ==
    /\ \E n \in 0..MaxN : \E c \in ColumnsOfLen(RawValues, n) :
          df_filtered \in RecencyInputs(n, c) \cup FrequencyInputs(n, c)
                            \cup MonetaryInputs(n, c)
    /\ kpi = NoKpi
    /\ rfm = NoTable
    /\ pc = "filtered"
    /\ err = "none"
    /\ row = NoRow
    /\ ret = "none"

SpecScore == InitScore /\ [][Next]_vars

\* six customers with pairwise distinct Monetary values, one order each
SixAmounts == {10, 20, 30, 40, 50, 60, 70}

Injective(x) == \A i, j \in DOMAIN x : i # j => x[i] # x[j]

InitSix ==
    /\ \E c \in ColumnsOfLen(SixAmounts, NBins + 1) :
          /\ Injective(c)
          /\ df_filtered = TransactionsOf(Ones(Len(c)), Ones(Len(c)), c)
    /\ kpi = NoKpi
    /\ rfm = NoTable
    /\ pc = "filtered"
    /\ err = "none"
    /\ row = NoRow
    /\ ret = "none"

SpecSix == InitSix /\ [][Next]_vars

\* rfm_segment as a pure function of a row of scores
Scores == Values(MLabels)

InitSegment ==
    /\ df_filtered = <<>>
    /\ kpi = NoKpi
    /\ rfm = NoTable
    /\ pc = "call"
    /\ err = "none"
    /\ row \in [R_Score : Scores, F_Score : Scores, M_Score : Scores]
    /\ ret = "none"

SpecSegment == InitSegment /\ [][CallSegment]_vars

---------------------------------------------------------------------------
(* Properties *)

N == Len(rfm.Customer_ID)

HasColumn(c) == c \in DOMAIN rfm

Aggregated == pc \notin {"filtered", "kpi", "call", "returned"}
Ranked == Aggregated /\ pc # "aggregated"
\* the scoring statements have run: to the end, or to the exception
QcutRan == pc \in {"scored", "composed", "segmented", "error"}
Scored == pc \in {"scored", "composed", "segmented"}

ScoreColumns == {"R_Score", "F_Score", "M_Score"}

IsPermutation(rk, n) ==
    /\ DOMAIN rk = 1..n
    /\ \A v \in 1..n : Cardinality({i \in 1..n : rk[i] = v}) = 1

\* the customers of a column that carry a given score
Bucket(c, v) ==
    IF HasColumn(c) THEN {i \in 1..N : rfm[c][i] = v} ELSE {}

\* C1: for every population of 1, 2, 3 or 4 customers the scoring step ends
\* without an exception and gives every customer a recency, a frequency and
\* a monetary score in 1..5.
C1_SmallPopulationScored ==
    (QcutRan /\ N \in 1..4) =>
        /\ err = "none"
        /\ \A c \in ScoreColumns :
              /\ HasColumn(c)
              /\ \A i \in 1..N : rfm[c][i] \in 1..5

\* C2: on the empty filtered transaction set aggregation and scoring end
\* without an exception, with an empty collection of scored customers.
C2_EmptyInputScored ==
    (QcutRan /\ df_filtered = <<>>) =>
        /\ err = "none"
        /\ N = 0
        /\ \A c \in ScoreColumns : HasColumn(c) /\ rfm[c] = <<>>

\* C3: for every population size N and each dimension, the five quantile
\* buckets are contiguous in rank, their sizes sum to N, every size is
\* floor(N/5) or ceil(N/5), and two sizes differ by at most 1.
BucketsEven(scoreCol, rankCol) ==
    LET size(b) == Cardinality(Bucket(scoreCol, b))
        \* the bucket, counted from the lowest ranks, that carries score v
        pos(v) == IF scoreCol = "R_Score" THEN 6 - v ELSE v
    IN /\ size(1) + size(2) + size(3) + size(4) + size(5) = N
       /\ \A b \in 1..5 : size(b) \in {N \div 5, (N + 4) \div 5}
       /\ \A b, d \in 1..5 : size(b) - size(d) <= 1
       /\ \A b, d \in 1..5 : \A i \in Bucket(scoreCol, b), j \in Bucket(scoreCol, d) :
             pos(b) < pos(d) => rfm[rankCol][i] < rfm[rankCol][j]

C3_BucketSizes ==
    QcutRan =>
        /\ BucketsEven("R_Score", "R_rank")
        /\ BucketsEven("F_Score", "F_rank")
        /\ BucketsEven("M_Score", "M_rank")

\* what C3 says holds of every population the scorer does score
BucketSizesWhenScored ==
    Scored =>
        /\ BucketsEven("R_Score", "R_rank")
        /\ BucketsEven("F_Score", "F_rank")
        /\ BucketsEven("M_Score", "M_rank")

\* C4: each of R_rank, F_rank and M_rank is a permutation of 1..N, also when
\* raw values are equal, and a strictly smaller raw value has a strictly
\* smaller rank.
RankIsOrderedPermutation(rankCol, rawCol) ==
    /\ IsPermutation(rfm[rankCol], N)
    /\ \A i, j \in 1..N :
          rfm[rawCol][i] < rfm[rawCol][j] => rfm[rankCol][i] < rfm[rankCol][j]

C4_RanksArePermutations ==
    Ranked =>
        /\ RankIsOrderedPermutation("R_rank", "Recency")
        /\ RankIsOrderedPermutation("F_rank", "Frequency")
        /\ RankIsOrderedPermutation("M_rank", "Monetary")

\* a ranked population of at least three customers, two of them with equal
\* Frequency and two with different Frequency
C4_Witness ==
    /\ pc = "ranked"
    /\ N >= 3
    /\ \E i, j, k \in 1..N :
          /\ i < j
          /\ rfm.Frequency[i] = rfm.Frequency[j]
          /\ rfm.F_rank[i] < rfm.F_rank[j]
          /\ rfm.Frequency[k] < rfm.Frequency[i]

\* C5: in every population of at least one customer, the customer whose
\* Monetary is strictly larger than every other's gets monetary_score 5 and
\* the customer whose Recency is strictly larger than every other's gets
\* recency_score 1.
StrictMax(rawCol, i) == \A j \in 1..N : j # i => rfm[rawCol][j] < rfm[rawCol][i]

C5_DirectionInvariant ==
    (QcutRan /\ N >= 1) =>
        \A i \in 1..N :
            /\ StrictMax("Monetary", i) =>
                  HasColumn("M_Score") /\ rfm.M_Score[i] = 5
            /\ StrictMax("Recency", i) =>
                  HasColumn("R_Score") /\ rfm.R_Score[i] = 1

\* what C5 says holds of every population the scorer does score
DirectionWhenScored ==
    Scored =>
        \A i \in 1..N :
            /\ StrictMax("Monetary", i) => rfm.M_Score[i] = 5
            /\ StrictMax("Recency", i) => rfm.R_Score[i] = 1

\* C6: rfm_segment returns exactly one label for every score triple in
\* {1..5}^3: "Best Customers" if R>=4, F>=4 and M>=4; else "New Customers"
\* if R>=4 and F<=2; else "Loyal Customers" if R<=2 and F>=4; else
\* "Others". (5,5,5) is "Best Customers", and among the triples that are not
\* "Best Customers" the label depends on R and F alone.
IsBest(r) == r.R_Score >= 4 /\ r.F_Score >= 4 /\ r.M_Score >= 4

C6_SegmentRule ==
    pc = "returned" =>
        /\ ret \in {"Best Customers", "New Customers", "Loyal Customers", "Others"}
        /\ ret = "Best Customers" <=> IsBest(row)
        /\ ret = "New Customers" <=> (row.R_Score >= 4 /\ row.F_Score <= 2)
        /\ ret = "Loyal Customers" <=> (row.R_Score <= 2 /\ row.F_Score >= 4)
        /\ row = [R_Score |-> 5, F_Score |-> 5, M_Score |-> 5]
              => ret = "Best Customers"
        /\ ~IsBest(row) =>
              \A m \in Scores :
                  LET other == [row EXCEPT !.M_Score = m]
                  IN ~IsBest(other) => rfm_segment(other) = ret

C6_Witness ==
    /\ pc = "returned"
    /\ row = [R_Score |-> 5, F_Score |-> 5, M_Score |-> 5]
    /\ ret = "Best Customers"

\* C7: the KPI computation never raises; the average order value is total
\* revenue divided by the distinct order count when that count is > 0 and 0
\* when it is 0; on the empty subset total, orders, customers and average
\* order value are all 0.
C7_KpiDefined ==
    pc # "filtered" /\ pc # "call" /\ pc # "returned" =>
        LET aov == kpi.avg_order_value
        IN /\ kpi.total_orders = Cardinality({df_filtered[i].Invoice_Number :
                                                 i \in DOMAIN df_filtered})
           /\ kpi.total_orders > 0 =>
                 /\ aov[2] > 0
                 /\ aov[1] * kpi.total_orders = kpi.total_sales * aov[2]
           /\ kpi.total_orders = 0 => aov = <<0, 1>>
           /\ df_filtered = <<>> =>
                 /\ kpi.total_sales = 0
                 /\ kpi.total_orders = 0
                 /\ kpi.total_customers = 0
                 /\ aov = <<0, 1>>
           /\ pc = "kpi" => err = "none"

C7_Witness ==
    /\ pc = "kpi"
    /\ df_filtered = <<>>
    /\ kpi = [total_sales |-> 0, total_orders |-> 0, total_customers |-> 0,
              avg_order_value |-> <<0, 1>>]

\* C8: for a non-empty transaction set there is exactly one aggregate per
\* distinct customer; frequency is the number of distinct order ids of the
\* customer's records (at least 1), monetary the sum of their amounts, and
\* recency the whole days, floored, from the customer's latest timestamp to
\* the snapshot (largest timestamp of the input plus one day), which is not
\* negative.
RowsOfCustomer(c) == {i \in DOMAIN df_filtered : df_filtered[i].Customer_ID = c}

RECURSIVE AmountOver(_)
AmountOver(I) ==
    IF I = {} THEN 0
    ELSE LET i == CHOOSE i \in I : TRUE
         IN df_filtered[i].Amount + AmountOver(I \ {i})

C8_AggregationCorrect ==
    (Aggregated /\ df_filtered # <<>>) =>
        LET ids == {df_filtered[i].Customer_ID : i \in DOMAIN df_filtered}
            snapshot == SetMax({df_filtered[i].Invoice_Date :
                                   i \in DOMAIN df_filtered}) + TicksPerDay
        IN /\ N = Cardinality(ids)
           /\ Values(rfm.Customer_ID) = ids
           /\ \A k \in 1..N :
                 LET I == RowsOfCustomer(rfm.Customer_ID[k])
                     latest == SetMax({df_filtered[i].Invoice_Date : i \in I})
                 IN /\ rfm.Frequency[k] =
                          Cardinality({df_filtered[i].Invoice_Number : i \in I})
                    /\ rfm.Frequency[k] >= 1
                    /\ rfm.Monetary[k] = AmountOver(I)
                    /\ rfm.Recency[k] >= 0
                    /\ rfm.Recency[k] * TicksPerDay <= snapshot - latest
                    /\ snapshot - latest < (rfm.Recency[k] + 1) * TicksPerDay

\* a customer with two records that are lines of one order, with a negative
\* total, whose latest record is more than a day before the last record of
\* the input, which is another customer's
C8_Witness ==
    /\ pc = "aggregated"
    /\ N = 2
    /\ \E k \in 1..N :
          /\ Cardinality(RowsOfCustomer(rfm.Customer_ID[k])) = 2
          /\ rfm.Frequency[k] = 1
          /\ rfm.Recency[k] = 2
          /\ rfm.Monetary[k] = -2

\* C9: six customers with pairwise distinct Monetary values fall into
\* Monetary buckets of sizes [2,1,1,1,1] from the lowest: the two smallest
\* values get monetary_score 1, the next four 2, 3, 4 and 5 in increasing
\* order of value, and the largest value gets 5.
C9_SixCustomers ==
    (Scored /\ N = 6 /\ Injective(rfm.Monetary)) =>
        /\ \A i \in 1..N :
              LET below == Cardinality({j \in 1..N :
                                           rfm.Monetary[j] < rfm.Monetary[i]})
              IN rfm.M_Score[i] = <<1, 1, 2, 3, 4, 5>>[below + 1]
        /\ <<Cardinality(Bucket("M_Score", 1)), Cardinality(Bucket("M_Score", 2)),
             Cardinality(Bucket("M_Score", 3)), Cardinality(Bucket("M_Score", 4)),
             Cardinality(Bucket("M_Score", 5))>> = <<2, 1, 1, 1, 1>>

C9_Witness ==
    /\ pc = "scored"
    /\ rfm.Monetary = <<10, 20, 30, 40, 50, 60>>
    /\ rfm.M_Score = <<1, 1, 2, 3, 4, 5>>

\* C10: within one population scores are weakly monotone in the raw values:
\* a smaller Monetary never has the larger monetary_score, a smaller
\* Frequency never the larger frequency_score, a smaller Recency never the
\* smaller recency_score; customers with equal raw values are ordered by
\* their position in the aggregate table (ascending Customer_ID).
C10_ScoresMonotone ==
    Scored =>
        /\ \A a, b \in 1..N : a < b => rfm.Customer_ID[a] < rfm.Customer_ID[b]
        /\ \A a, b \in 1..N :
              /\ rfm.Monetary[a] < rfm.Monetary[b]
                    => rfm.M_Score[a] <= rfm.M_Score[b]
              /\ rfm.Frequency[a] < rfm.Frequency[b]
                    => rfm.F_Score[a] <= rfm.F_Score[b]
              /\ rfm.Recency[a] < rfm.Recency[b]
                    => rfm.R_Score[a] >= rfm.R_Score[b]
              /\ (a < b /\ rfm.Monetary[a] = rfm.Monetary[b])
                    => /\ rfm.M_rank[a] < rfm.M_rank[b]
                       /\ rfm.M_Score[a] <= rfm.M_Score[b]
              /\ (a < b /\ rfm.Frequency[a] = rfm.Frequency[b])
                    => /\ rfm.F_rank[a] < rfm.F_rank[b]
                       /\ rfm.F_Score[a] <= rfm.F_Score[b]
              /\ (a < b /\ rfm.Recency[a] = rfm.Recency[b])
                    => /\ rfm.R_rank[a] < rfm.R_rank[b]
                       /\ rfm.R_Score[a] >= rfm.R_Score[b]

\* two customers with equal Monetary and different monetary scores, and a
\* third with a smaller Monetary
C10_Witness ==
    /\ pc = "scored"
    /\ \E a, b, c \in 1..N :
          /\ a < b
          /\ rfm.Monetary[a] = rfm.Monetary[b]
          /\ rfm.M_Score[a] < rfm.M_Score[b]
          /\ rfm.Monetary[c] < rfm.Monetary[a]
          /\ rfm.M_Score[c] < rfm.M_Score[a]

====
